---- MODULE Spec2Model ----
(***************************************************************************)
(* setuptools_golang: the build_ext router that sends an Extension with a  *)
(* .go source to the go toolchain (temporary GOPATH, go get -d, go build   *)
(* -buildmode=c-shared) and every other Extension to the base build step.  *)
(*                                                                         *)
(* One build command object (self) with its compiler, the cmdclass         *)
(* registry of the distribution, the temporary directories on disk, the    *)
(* process environment, and one record per build_extension invocation.     *)
(***************************************************************************)
EXTENDS Integers, Sequences, FiniteSets, TLC

VARIABLES
    cmdclass,   \* dist.cmdclass['build_ext'] as the chain of classes, bottom first
    heap,       \* compiler objects: heap[id] is the object's include_dirs
    compiler,   \* self.compiler: the id of the object the build command holds
    dirs,       \* directories made by tempfile.mkdtemp, by name (index)
    environ,    \* os.environ
    host,       \* the machine: sys.platform and the go / C toolchain found on it
    parallel,   \* build_ext's parallel option: extensions built by a thread pool
    calls,      \* number of build_extension calls the host has made
    installed,  \* every class registered as build_ext so far, in order
    inv         \* per host thread: the build_extension invocation it is running

vars == <<cmdclass, heap, compiler, dirs, environ, host, parallel, calls, installed, inv>>

(***************************************************************************)
(* Bounds                                                                  *)
(***************************************************************************)
NumThreads == 2      \* host threads that may run build_extension
MaxCalls == 2        \* build_extension calls per run
MaxInstalls == 2     \* set_build_ext calls per distribution

Threads == 1..NumThreads

(***************************************************************************)
(* Paths.  A path is its components plus what os.path.isabs would say; tmp *)
(* is the mkdtemp directory an absolute path starts from (0: none).        *)
(***************************************************************************)
Rel(parts) == [abs |-> FALSE, tmp |-> 0, parts |-> parts]
Abs(parts) == [abs |-> TRUE, tmp |-> 0, parts |-> parts]
TmpPath(n) == [abs |-> TRUE, tmp |-> n, parts |-> <<>>]
NoPath == Rel(<<>>)

join(a, b) == IF b.abs THEN b ELSE [a EXCEPT !.parts = a.parts \o b.parts]

dirname(p) ==
    IF p.parts = <<>> THEN p
    ELSE [p EXCEPT !.parts = SubSeq(p.parts, 1, Len(p.parts) - 1)]

\* the file system's reading of "..": the parent of the directory before it
RECURSIVE Norm(_)
Norm(parts) ==
    IF parts = <<>> THEN <<>>
    ELSE LET init == Norm(SubSeq(parts, 1, Len(parts) - 1))
             last == parts[Len(parts)]
         IN  IF last = ".." /\ init # <<>> /\ init[Len(init)] # ".."
             THEN SubSeq(init, 1, Len(init) - 1)
             ELSE Append(init, last)

\* source.endswith('.go'): the file names of the model that end so
GoNames == {"main.go", "gone.go", "sum.go", "sum_support.go"}
endswith_go(p) == p.parts # <<>> /\ p.parts[Len(p.parts)] \in GoNames

(***************************************************************************)
(* The project tree (the current directory) and what lies outside it.      *)
(***************************************************************************)
ProjectDirs == {<<>>, <<"dir">>, <<"dir1">>, <<"dir2">>}
ProjectFiles == {<<"dir", "main.go">>, <<"dir1", "sum.go">>,
                 <<"dir2", "sum_support.go">>, <<"mod.c">>}
OutsideDirs == {<<"srv", "ext">>}
OutsideFiles == {<<"srv", "ext", "main.go">>}
SiblingFiles == {<<"..", "sib", "main.go">>}

\* os.path.exists(main_file), relative paths read from the project root
exists(p) ==
    IF p.abs THEN p.tmp = 0 /\ p.parts \in OutsideFiles
    ELSE Norm(p.parts) \in ProjectFiles \cup SiblingFiles

Roots == {<<"pkg">>, <<"example.com", "pkg">>}

\* an Extension: name, sources, define_macros; fullpath is what
\* self.get_ext_fullpath(ext.name) gives for it
Ext(name, sources, macros) ==
    [name |-> name, sources |-> sources, define_macros |-> macros,
     fullpath |-> Rel(<<"build", name>>)]

Extensions ==
    { Ext("native", <<Rel(<<"mod.c">>)>>, <<>>),
      Ext("pkg", <<Rel(<<"dir", "main.go">>)>>, <<<<"FOO">>, <<"BAR", "1">>>>),
      Ext("multidir", <<Rel(<<"dir1", "sum.go">>), Rel(<<"dir2", "sum_support.go">>)>>, <<>>),
      Ext("mixed", <<Rel(<<"dir", "main.go">>), Rel(<<"mod.c">>)>>, <<>>),
      Ext("gone", <<Rel(<<"dir", "gone.go">>)>>, <<>>),
      Ext("outside", <<Abs(<<"srv", "ext", "main.go">>)>>, <<>>),
      Ext("sibling", <<Rel(<<"..", "sib", "main.go">>)>>, <<>>) }

NoExt == Ext("", <<>>, <<>>)

\* os.path.abspath of a path relative to the project root
abspath(p) == IF p.abs THEN p ELSE Abs(<<"proj">> \o p.parts)

(***************************************************************************)
(* Exceptions                                                              *)
(***************************************************************************)
NoExc == [type |-> "None", returncode |-> 0, argv |-> <<>>]
Exc(type) == [type |-> type, returncode |-> 0, argv |-> <<>>]
CalledProcessError(rc, argv) == [type |-> "CalledProcessError", returncode |-> rc, argv |-> argv]

FailCodes == {1, 2}
ExitCodes == {0} \cup FailCodes

(***************************************************************************)
(* dict(os.environ, **env)                                                 *)
(***************************************************************************)
Merge_base_wins(base, over) ==
    [k \in DOMAIN base \cup DOMAIN over |->
        IF k \in DOMAIN base THEN base[k] ELSE over[k]]
Merge(base, over) ==
    [k \in DOMAIN base \cup DOMAIN over |->
        IF k \in DOMAIN over THEN over[k] ELSE base[k]]

EmptyDict == [k \in {} |-> NoPath]

\* _get_cflags: the flag string as the list of its space-separated words, each
\* word the list of the pieces the f-string puts together
RECURSIVE MacroArgs(_)
MacroArgs(macros) ==
    IF macros = <<>> THEN <<>>
    ELSE LET m == Head(macros)
         IN  << IF Len(m) = 1 THEN <<"-D", m[1]>> ELSE <<"-D", m[1], "=", m[2]>> >>
             \o MacroArgs(Tail(macros))

_get_cflags(include_dirs, macros) ==
    [k \in 1..Len(include_dirs) |-> <<"-I", include_dirs[k]>>] \o MacroArgs(macros)

(***************************************************************************)
(* The machine.  platform is sys.platform; goEnvOk: `go env CC` exits 0;   *)
(* ccPresent: the program it names can be executed; accepts: the link      *)
(* flags with which the trial compile exits 0.                             *)
(***************************************************************************)
LFLAG_CLANG == "-Wl,-undefined,dynamic_lookup"
LFLAG_GCC == "-Wl,--unresolved-symbols=ignore-all"
LFLAGS == <<LFLAG_CLANG, LFLAG_GCC>>
WIN32_LDFLAGS == "-L<prefix>/libs -lpython<X><Y>"

Hosts ==
    { [platform |-> "posix", goEnvOk |-> TRUE, ccPresent |-> TRUE, accepts |-> a] :
        a \in SUBSET {LFLAG_CLANG, LFLAG_GCC} }
    \cup { [platform |-> "posix", goEnvOk |-> FALSE, ccPresent |-> TRUE, accepts |-> {LFLAG_GCC}],
           [platform |-> "posix", goEnvOk |-> TRUE, ccPresent |-> FALSE, accepts |-> {}],
           [platform |-> "win32", goEnvOk |-> TRUE, ccPresent |-> TRUE, accepts |-> {}] }

Environs ==
    { [PATH |-> "/usr/bin"],
      [PATH |-> "/usr/bin", GOPATH |-> Abs(<<"home", "go">>), CGO_LDFLAGS |-> "-lm"] }

\* a started child process: its command line (argv, and the path argument
\* among them), working directory, environment and exit status
Proc(argv, file, cwd, env, rc) ==
    [argv |-> argv, file |-> file, cwd |-> cwd, env |-> env, rc |-> rc]

CMD_GET == <<"go", "get", "-d">>
CMD_BUILD == <<"go", "build", "-buildmode=c-shared", "-o">>
CMD_GOENV == <<"go", "env", "CC">>

\* line 72: subprocess.check_output(('go', 'env', 'CC')), os.environ inherited
GoEnvCC(h, env) == Proc(CMD_GOENV, NoPath, Rel(<<>>), env, IF h.goEnvOk THEN 0 ELSE 2)

\* line 81: subprocess.check_call((cc, testf, lflag), cwd=tmpdir) for the k-th
\* of LFLAGS, in the probe's directory n, os.environ inherited
TrialCompile(h, env, n, k) ==
    Proc(<<"cc", LFLAGS[k]>>, join(TmpPath(n), Rel(<<"test.c">>)), TmpPath(n), env,
         IF LFLAGS[k] \in h.accepts THEN 0 ELSE 1)

(***************************************************************************)
(* _tmpdir's cleanup, shutil.rmtree(tempdir, onerror=err).  content names  *)
(* what child processes left in the directory besides ordinary files:      *)
(* "rofile", files without write permission; "rodir", a directory without  *)
(* write permission that holds files.                                      *)
(***************************************************************************)
Kinds == {"rofile", "rodir"}

\* whether removing an entry of this kind fails; chmodded: os.chmod(name,
\* stat.S_IWRITE) was applied to that entry.  Windows refuses to delete what is
\* read-only; POSIX refuses to unlink from a directory that is not writable,
\* whatever the mode of the entry itself.
RemoveFails(platform, kind, chmodded) ==
    \/ platform = "win32" /\ ~chmodded
    \/ platform # "win32" /\ kind = "rodir"

\* err(action, name, exc): chmod the entry and try again; TRUE when the
\* second try removes it, FALSE when it raises
err(platform, kind) == ~RemoveFails(platform, kind, TRUE)

\* TRUE when the tree is gone, FALSE when rmtree raises
rmtree(platform, content) ==
    \A k \in content : RemoveFails(platform, k, FALSE) => err(platform, k)

NewDir(owner) == [exists |-> TRUE, owner |-> owner, tree |-> <<>>, content |-> {}]

\* whether the directory a child is to start in exists
RECURSIVE Prefixes(_)
Prefixes(s) == IF s = <<>> THEN {<<>>} ELSE {s} \cup Prefixes(SubSeq(s, 1, Len(s) - 1))

isdir(p, ds) ==
    IF p.tmp > 0
    THEN /\ ds[p.tmp].exists
         /\ \/ Norm(p.parts) = <<>>
            \/ /\ ds[p.tmp].tree # <<>>
               /\ \/ Norm(p.parts) \in Prefixes(<<"src">> \o ds[p.tmp].tree)
                  \/ \E d \in ProjectDirs : Norm(p.parts) = <<"src">> \o ds[p.tmp].tree \o d
    ELSE IF p.abs THEN p.parts \in OutsideDirs
    ELSE Norm(p.parts) \in ProjectDirs

(***************************************************************************)
(* One build_extension invocation.  frames holds, for every router level   *)
(* entered on the native path, that level's local variable `compiler`;     *)
(* saved, the base step's local `_compiler`; cflags, probeTmp, trial and    *)
(* lflag, the values in hand while line 142's argument is being evaluated. *)
(***************************************************************************)
IdleInv ==
    [pc |-> "idle", ext |-> NoExt, lvl |-> 0, frames |-> <<>>, driver |-> FALSE,
     tmp |-> 0, pkg_path |-> NoPath, env |-> EmptyDict, exc |-> NoExc,
     procs |-> <<>>, delegated |-> 0, origCalls |-> 0,
     probe |-> "none", origKind |-> "none", sawMutation |-> FALSE,
     saved |-> 0, cflags |-> <<>>, probeTmp |-> 0, trial |-> 0, lflag |-> "",
     entry |-> 0, entryState |-> <<>>, entryDirs |-> 0, entryEnviron |-> EmptyDict]

Router(root) == [kind |-> "router", root |-> root]
Custom == [kind |-> "custom", root |-> <<>>]

Routers(classes) == SelectSeq(classes, LAMBDA c : c.kind = "router")

\* lines 167-170: the class registered now becomes the base of the new one
set_build_ext_replace(registry, root) == <<Router(root)>>
set_build_ext(registry, root) == Append(registry, Router(root))

IsRouter(k) == k >= 1 /\ k <= Len(cmdclass) /\ cmdclass[k].kind = "router"

\* line 106
HasGo_all(ext) ==
    /\ ext.sources # <<>>
    /\ \A k \in 1..Len(ext.sources) : endswith_go(ext.sources[k])
HasGo(ext) == \E k \in 1..Len(ext.sources) : endswith_go(ext.sources[k])

\* lines 115-127: the exception the checks raise, NoExc when they pass
Validate_under_root(ext) ==
    IF Len(ext.sources) # 1 THEN Exc("OSError:sources")
    ELSE IF ~exists(ext.sources[1]) THEN Exc("OSError:missing")
    ELSE IF ext.sources[1].abs \/ ".." \in {ext.sources[1].parts[k] : k \in 1..Len(ext.sources[1].parts)}
    THEN Exc("OSError:outside")
    ELSE NoExc
Validate_count_only(ext) ==
    IF Len(ext.sources) # 1 THEN Exc("OSError:sources") ELSE NoExc
Validate(ext) ==
    IF Len(ext.sources) # 1 THEN Exc("OSError:sources")
    ELSE IF ~exists(ext.sources[1]) THEN Exc("OSError:missing")
    ELSE NoExc

\* the distribution and the build command as constructed, on one of the
\* machines, with or without a build_ext override of the project's own
Start(par, machines, registered) ==
    /\ cmdclass \in registered
    /\ heap = << <<"inc">> >>
    /\ compiler = 1
    /\ dirs = <<>>
    /\ environ \in Environs
    /\ host \in machines
    /\ parallel = par
    /\ calls = 0
    /\ installed = cmdclass
    /\ inv = [t \in Threads |-> IdleInv]

\* build_ext run serially (the default): one build_extension at a time
Init == Start(FALSE, Hosts, {<<>>, <<Custom>>})

\* set_build_ext(dist, attr, {'root': root}); the distribution reads its
\* keywords before any command runs
Install(root) ==
    /\ calls = 0
    /\ Len(Routers(installed)) < MaxInstalls
    /\ cmdclass' = set_build_ext(cmdclass, root)
    /\ installed' = Append(installed, Router(root))
    /\ UNCHANGED <<heap, compiler, dirs, environ, host, parallel, calls, inv>>

\* the host calls self.build_extension(ext): in the main thread one extension
\* after the other, or from the pool's threads when parallel
Call(t, ext) ==
    /\ inv[t].pc = "idle"
    /\ calls < MaxCalls
    /\ IsRouter(Len(cmdclass))
    /\ parallel \/ t = 1
    /\ calls' = calls + 1
    /\ inv' = [inv EXCEPT ![t] = [IdleInv EXCEPT !.pc = "enter", !.ext = ext,
                 !.lvl = Len(cmdclass), !.entry = compiler,
                 !.entryState = heap[compiler], !.entryDirs = Len(dirs),
                 !.entryEnviron = environ]]
    /\ UNCHANGED <<cmdclass, heap, compiler, dirs, environ, host, parallel, installed>>

\* line 108: compiler = copy.deepcopy(self.compiler)
NativeCopy(t) ==
    /\ inv[t].pc = "enter"
    /\ ~HasGo(inv[t].ext)
    /\ heap' = Append(heap, heap[compiler])
    /\ inv' = [inv EXCEPT ![t].pc = "swap",
                          ![t].frames = Append(@, Len(heap) + 1)]
    /\ UNCHANGED <<cmdclass, compiler, dirs, environ, host, parallel, calls, installed>>

\* line 109, then line 111 up to the callee's first statement
NativeSwap(t) ==
    /\ inv[t].pc = "swap"
    /\ LET top == Len(inv[t].frames)
       IN  /\ compiler' = inv[t].frames[top]
           /\ inv' = [inv EXCEPT ![t].frames[top] = compiler,
                                 ![t].delegated = @ + 1,
                                 ![t].lvl = @ - 1,
                                 ![t].pc = IF IsRouter(inv[t].lvl - 1) THEN "enter" ELSE "base"]
    /\ UNCHANGED <<cmdclass, heap, dirs, environ, host, parallel, calls, installed>>

\* line 111 reaches the build step that was registered before any router,
\* setuptools' build_ext.build_extension (a project's own override derives
\* from it and ends in it): it keeps self.compiler in a local of its own for
\* its finally
BaseEnter(t) ==
    /\ inv[t].pc = "base"
    /\ inv' = [inv EXCEPT ![t].pc = "compile",
                          ![t].saved = compiler,
                          ![t].origCalls = @ + 1,
                          ![t].origKind = IF inv[t].lvl = 0 THEN "default" ELSE cmdclass[inv[t].lvl].kind]
    /\ UNCHANGED <<cmdclass, heap, compiler, dirs, environ, host, parallel, calls, installed>>

\* the base compiles the sources with the compiler self.compiler names now,
\* which it may change (set_include_dirs and the like), and waits for the child
BaseCompile(t) ==
    /\ inv[t].pc = "compile"
    /\ \E mutate \in BOOLEAN, raises \in BOOLEAN :
        /\ heap' = IF mutate THEN [heap EXCEPT ![compiler] = Append(@, "gen")] ELSE heap
        /\ inv' = [inv EXCEPT ![t].pc = IF raises THEN "basefinally" ELSE "link",
                              ![t].sawMutation = @ \/ mutate,
                              ![t].exc = IF raises THEN Exc("CompileError") ELSE NoExc]
    /\ UNCHANGED <<cmdclass, compiler, dirs, environ, host, parallel, calls, installed>>

\* the base links the objects and waits for the child
BaseLink(t) ==
    /\ inv[t].pc = "link"
    /\ \E raises \in BOOLEAN :
        inv' = [inv EXCEPT ![t].pc = "basefinally",
                           ![t].exc = IF raises THEN Exc("LinkError") ELSE NoExc]
    /\ UNCHANGED <<cmdclass, heap, compiler, dirs, environ, host, parallel, calls, installed>>

\* the base's finally: self.compiler = _compiler; control is back at line 111
BaseFinally(t) ==
    /\ inv[t].pc = "basefinally"
    /\ compiler' = inv[t].saved
    /\ inv' = [inv EXCEPT ![t].pc = "restore", ![t].lvl = @ + 1, ![t].saved = 0]
    /\ UNCHANGED <<cmdclass, heap, dirs, environ, host, parallel, calls, installed>>

\* the objects something still refers to: self.compiler and the frames' locals
Live(c, iv) ==
    {c} \cup UNION {{iv[t].frames[k] : k \in 1..Len(iv[t].frames)} \cup ({iv[t].saved} \ {0})
                    : t \in Threads}

\* the interpreter frees an object nothing refers to (the newest first, so
\* that the ids of the others stand)
RECURSIVE Collect(_, _)
Collect(h, live) ==
    IF h # <<>> /\ Len(h) \notin live
    THEN Collect(SubSeq(h, 1, Len(h) - 1), live)
    ELSE h

\* the frame returns and leaves self.compiler as the base left it
NativeRestore_keep(t) ==
    /\ inv[t].pc = "restore"
    /\ LET top == Len(inv[t].frames)
       IN  inv' = [inv EXCEPT ![t].frames = SubSeq(@, 1, top - 1),
                              ![t].lvl = IF top = 1 THEN @ ELSE @ + 1,
                              ![t].pc = IF top = 1 THEN "done" ELSE "restore"]
    /\ UNCHANGED <<cmdclass, heap, compiler, dirs, environ, host, parallel, calls, installed>>

\* line 113, in the finally: the same swap again, then the frame returns
NativeRestore(t) ==
    /\ inv[t].pc = "restore"
    /\ LET top == Len(inv[t].frames)
       IN  /\ compiler' = inv[t].frames[top]
           /\ inv' = [inv EXCEPT ![t].frames = SubSeq(@, 1, top - 1),
                                 ![t].lvl = IF top = 1 THEN @ ELSE @ + 1,
                                 ![t].pc = IF top = 1 THEN "done" ELSE "restore"]
    /\ heap' = Collect(heap, Live(compiler', inv'))
    /\ UNCHANGED <<cmdclass, dirs, environ, host, parallel, calls, installed>>

\* lines 115-127: a .go source, and the checks refuse the extension
Reject(t) ==
    /\ inv[t].pc = "enter"
    /\ HasGo(inv[t].ext)
    /\ Validate(inv[t].ext) # NoExc
    /\ inv' = [inv EXCEPT ![t].pc = "done", ![t].driver = TRUE,
                          ![t].exc = Validate(inv[t].ext)]
    /\ UNCHANGED <<cmdclass, heap, compiler, dirs, environ, host, parallel, calls, installed>>

\* lines 115-131: the checks pass; _tmpdir is entered (tempfile.mkdtemp)
Acquire(t) ==
    /\ inv[t].pc = "enter"
    /\ HasGo(inv[t].ext)
    /\ Validate(inv[t].ext) = NoExc
    /\ dirs' = Append(dirs, NewDir(t))
    /\ inv' = [inv EXCEPT ![t].pc = "copytree", ![t].driver = TRUE,
                          ![t].tmp = Len(dirs) + 1]
    /\ UNCHANGED <<cmdclass, heap, compiler, environ, host, parallel, calls, installed>>

\* _check_call: the child as subprocess.check_call starts it
_check_call(argv, file, cwd, env, ambient, rc) ==
    Proc(argv, file, cwd, Merge(ambient, env), rc)

\* lines 132-138: os.makedirs, shutil.copytree('.', root_path, symlinks=True),
\* pkg_path, env = {'GOPATH': tempdir}
CopyProject(t) ==
    /\ inv[t].pc = "copytree"
    /\ LET root == cmdclass[inv[t].lvl].root
           root_path == join(TmpPath(inv[t].tmp), Rel(<<"src">> \o root))
           main_dir == dirname(inv[t].ext.sources[1])
       IN  \E copied \in BOOLEAN :
            /\ dirs' = IF copied THEN [dirs EXCEPT ![inv[t].tmp].tree = root] ELSE dirs
            /\ inv' = [inv EXCEPT ![t].pc = IF copied THEN "fetch" ELSE "cleanup",
                                  ![t].exc = IF copied THEN NoExc ELSE Exc("shutil.Error"),
                                  ![t].pkg_path = IF copied THEN join(root_path, main_dir) ELSE @,
                                  ![t].env = IF copied THEN [GOPATH |-> TmpPath(inv[t].tmp)] ELSE @]
    /\ UNCHANGED <<cmdclass, heap, compiler, environ, host, parallel, calls, installed>>

\* what a go command leaves in its GOPATH (go get -d fills the module cache
\* under it, go build writes only the -o file) and how it exits; a child
\* cannot be started in a directory that does not exist
RunGo(t, argv, file, leaves, next) ==
    LET i == inv[t]
    IN  IF ~isdir(i.pkg_path, dirs)
        THEN /\ inv' = [inv EXCEPT ![t].pc = "cleanup", ![t].exc = Exc("FileNotFoundError")]
             /\ dirs' = dirs
        ELSE \E rc \in ExitCodes, left \in leaves :
             /\ dirs' = [dirs EXCEPT ![i.tmp].content = @ \cup left]
             /\ inv' = [inv EXCEPT
                    ![t].procs = Append(@, _check_call(argv, file, i.pkg_path, i.env, environ, rc)),
                    ![t].pc = IF rc = 0 THEN next ELSE "cleanup",
                    ![t].exc = IF rc = 0 THEN NoExc ELSE CalledProcessError(rc, argv)]

\* lines 138-140: go get -d
Fetch(t) ==
    /\ inv[t].pc = "fetch"
    /\ RunGo(t, CMD_GET, NoPath, SUBSET Kinds, "flags")
    /\ UNCHANGED <<cmdclass, heap, compiler, environ, host, parallel, calls, installed>>

\* lines 143-145: the dict display evaluates _get_cflags(self.compiler, ...)
\* first; line 146 then calls _get_ldflags, which on Windows returns at once
\* (lines 67-70) so that env.update follows
Flags(t) ==
    /\ inv[t].pc = "flags"
    /\ LET cflags == _get_cflags(heap[compiler], inv[t].ext.define_macros)
       IN  inv' = [inv EXCEPT
               ![t].cflags = cflags,
               ![t].probe = IF host.platform = "win32" THEN "returned" ELSE @,
               ![t].pc = IF host.platform = "win32" THEN "build" ELSE "goenv",
               ![t].env = IF host.platform = "win32"
                          THEN Merge(@, [CGO_CFLAGS |-> cflags, CGO_LDFLAGS |-> WIN32_LDFLAGS])
                          ELSE @]
    /\ UNCHANGED <<cmdclass, heap, compiler, dirs, environ, host, parallel, calls, installed>>

\* line 72: go env CC, outside any try: its CalledProcessError leaves
\* _get_ldflags and the driver's with block
GoEnv(t) ==
    /\ inv[t].pc = "goenv"
    /\ inv' = [inv EXCEPT
           ![t].procs = Append(@, GoEnvCC(host, environ)),
           ![t].probe = IF host.goEnvOk THEN @ ELSE "raised",
           ![t].exc = IF host.goEnvOk THEN NoExc ELSE CalledProcessError(2, CMD_GOENV),
           ![t].pc = IF host.goEnvOk THEN "probe" ELSE "cleanup"]
    /\ UNCHANGED <<cmdclass, heap, compiler, dirs, environ, host, parallel, calls, installed>>

\* lines 74-77: _get_ldflags enters a _tmpdir of its own and writes test.c
ProbeAcquire(t) ==
    /\ inv[t].pc = "probe"
    /\ dirs' = Append(dirs, NewDir(t))
    /\ inv' = [inv EXCEPT ![t].pc = "trial", ![t].probeTmp = Len(dirs) + 1, ![t].trial = 1]
    /\ UNCHANGED <<cmdclass, heap, compiler, environ, host, parallel, calls, installed>>

\* lines 79-88: one pass of the loop.  A compiler that cannot be started
\* raises FileNotFoundError, which the except clause does not catch; exit 0
\* returns the flag; a non-zero exit goes on to the next flag, and after the
\* last one the else clause returns LFLAG_GCC
Trial(t) ==
    /\ inv[t].pc = "trial"
    /\ LET k == inv[t].trial
           p == TrialCompile(host, environ, inv[t].probeTmp, k)
       IN  inv' = IF ~host.ccPresent
                  THEN [inv EXCEPT ![t].pc = "probecleanup",
                                   ![t].exc = Exc("FileNotFoundError")]
                  ELSE [inv EXCEPT
                           ![t].procs = Append(@, p),
                           ![t].trial = IF p.rc = 0 THEN @ ELSE @ + 1,
                           ![t].lflag = IF p.rc = 0 THEN LFLAGS[k]
                                        ELSE IF k = Len(LFLAGS) THEN LFLAG_GCC ELSE @,
                           ![t].pc = IF p.rc = 0 \/ k = Len(LFLAGS) THEN "probecleanup" ELSE @]
    /\ UNCHANGED <<cmdclass, heap, compiler, dirs, environ, host, parallel, calls, installed>>

\* lines 30-40 for the probe's directory, which holds test.c alone, then
\* line 142's env.update when _get_ldflags returned
ProbeRelease(t) ==
    /\ inv[t].pc = "probecleanup"
    /\ LET gone == rmtree(host.platform, dirs[inv[t].probeTmp].content)
           out == IF gone THEN inv[t].exc ELSE Exc("PermissionError")
       IN  /\ dirs' = IF gone THEN [dirs EXCEPT ![inv[t].probeTmp].exists = FALSE] ELSE dirs
           /\ inv' = [inv EXCEPT
                  ![t].exc = out,
                  ![t].probe = IF out = NoExc THEN "returned" ELSE "raised",
                  ![t].pc = IF out = NoExc THEN "build" ELSE "cleanup",
                  ![t].env = IF out = NoExc
                             THEN Merge(@, [CGO_CFLAGS |-> inv[t].cflags,
                                            CGO_LDFLAGS |-> inv[t].lflag])
                             ELSE @]
    /\ UNCHANGED <<cmdclass, heap, compiler, environ, host, parallel, calls, installed>>

\* lines 148-152: go build -buildmode=c-shared -o <fullpath>
Build(t) ==
    /\ inv[t].pc = "build"
    /\ RunGo(t, CMD_BUILD, abspath(inv[t].ext.fullpath), {{}}, "cleanup")
    /\ UNCHANGED <<cmdclass, heap, compiler, environ, host, parallel, calls, installed>>

\* lines 30-40: the finally of _tmpdir.  When rmtree raises, its exception
\* replaces the one that was on its way out and the directory stays.
Release(t) ==
    /\ inv[t].pc = "cleanup"
    /\ LET gone == rmtree(host.platform, dirs[inv[t].tmp].content)
       IN  /\ dirs' = IF gone
                      THEN [dirs EXCEPT ![inv[t].tmp] = [NewDir(t) EXCEPT !.exists = FALSE]]
                      ELSE dirs
           /\ inv' = [inv EXCEPT ![t].pc = "done",
                                 ![t].exc = IF gone THEN @ ELSE Exc("PermissionError")]
    /\ UNCHANGED <<cmdclass, heap, compiler, environ, host, parallel, calls, installed>>

\* build_extension has returned or raised; the thread takes the next extension
Return(t) ==
    /\ inv[t].pc = "done"
    /\ inv' = [inv EXCEPT ![t] = IdleInv]
    /\ UNCHANGED <<cmdclass, heap, compiler, dirs, environ, host, parallel, calls, installed>>

Step(exts) ==
    \/ \E root \in Roots : Install(root)
    \/ \E t \in Threads, ext \in exts : Call(t, ext)
    \/ \E t \in Threads : NativeCopy(t)
    \/ \E t \in Threads : NativeSwap(t)
    \/ \E t \in Threads : BaseEnter(t)
    \/ \E t \in Threads : BaseCompile(t)
    \/ \E t \in Threads : BaseLink(t)
    \/ \E t \in Threads : BaseFinally(t)
    \/ \E t \in Threads : NativeRestore(t)
    \/ \E t \in Threads : Reject(t)
    \/ \E t \in Threads : Acquire(t)
    \/ \E t \in Threads : CopyProject(t)
    \/ \E t \in Threads : Fetch(t)
    \/ \E t \in Threads : Flags(t)
    \/ \E t \in Threads : GoEnv(t)
    \/ \E t \in Threads : ProbeAcquire(t)
    \/ \E t \in Threads : Trial(t)
    \/ \E t \in Threads : ProbeRelease(t)
    \/ \E t \in Threads : Build(t)
    \/ \E t \in Threads : Release(t)
    \/ \E t \in Threads : Return(t)

Next == Step(Extensions)

\* the parallel runs are explored for one machine and these extensions
ParallelExtensions == {e \in Extensions : e.name \in {"native", "pkg", "gone"}}
ParallelHosts == {h \in Hosts : h.platform = "posix" /\ h.goEnvOk /\ h.ccPresent /\ h.accepts = {LFLAG_GCC}}
NextParallel == Step(ParallelExtensions)

InitParallel == Start(TRUE, ParallelHosts, {<<>>})

Spec == Init /\ [][Next]_vars

\* build_ext run with its parallel option
SpecParallel == InitParallel /\ [][NextParallel]_vars

(***************************************************************************)
(* The claims.                                                             *)
(***************************************************************************)
Busy(t) == inv[t].pc # "idle"
Done(t) == inv[t].pc = "done"

\* the extension names a source whose file name ends in .go
AnyGoSource(e) ==
    \E k \in 1..Len(e.sources) :
        e.sources[k].parts[Len(e.sources[k].parts)] \in GoNames

\* C1: an extension with a .go source goes to the build driver and no base
\* build_extension is ever called for it, whether the driver fails or not; an
\* extension without one goes to the base and the driver is never entered (no
\* validation, no directory, no child process).
C1_ExclusiveDispatch ==
    \A t \in Threads : Busy(t) =>
        IF AnyGoSource(inv[t].ext)
        THEN /\ inv[t].delegated = 0 /\ inv[t].origCalls = 0 /\ inv[t].frames = <<>>
             /\ Done(t) => inv[t].driver
        ELSE /\ ~inv[t].driver /\ inv[t].tmp = 0 /\ inv[t].procs = <<>>
             /\ Len(dirs) = inv[t].entryDirs
             /\ Done(t) => inv[t].origCalls = 1

C1_Witness ==
    \E t \in Threads :
        /\ Done(t) /\ inv[t].ext.name = "pkg" /\ inv[t].driver
        /\ inv[t].exc = NoExc /\ Len(inv[t].procs) >= 2
        /\ inv[t].origCalls = 0 /\ inv[t].delegated = 0

\* C2: when build_extension has returned or raised for an extension without a
\* .go source, self.compiler is the object it was before the call, in the
\* state it had then, although the base changed the compiler it saw.
C2_CompilerRoundTrip ==
    \A t \in Threads : Done(t) /\ ~AnyGoSource(inv[t].ext) =>
        /\ compiler = inv[t].entry
        /\ heap[compiler] = inv[t].entryState

C2_Witness ==
    \E t \in Threads :
        /\ Done(t) /\ ~AnyGoSource(inv[t].ext)
        /\ inv[t].sawMutation /\ inv[t].exc # NoExc /\ inv[t].delegated = 2

\* C3: an extension with a .go source whose .go source count is not 1, or whose
\* only source does not exist, fails with the configuration error, and no
\* temporary directory is made and no child process started for it.
GoCount(e) == Cardinality({k \in 1..Len(e.sources) :
                  e.sources[k].parts[Len(e.sources[k].parts)] \in GoNames})
Misconfigured(e) ==
    /\ AnyGoSource(e)
    /\ \/ GoCount(e) # 1
       \/ Len(e.sources) = 1 /\ ~exists(e.sources[1])

C3_FailFast ==
    \A t \in Threads : Busy(t) /\ Misconfigured(inv[t].ext) =>
        /\ inv[t].tmp = 0 /\ inv[t].procs = <<>>
        /\ Len(dirs) = inv[t].entryDirs
        /\ inv[t].pc \in {"enter", "done"}
        /\ Done(t) => inv[t].exc.type \in {"OSError:sources", "OSError:missing"}

C3_Witness ==
    \E t \in Threads :
        /\ Done(t) /\ inv[t].ext.name = "gone"
        /\ inv[t].exc.type = "OSError:missing" /\ Len(dirs) = inv[t].entryDirs

\* C9: however many routers were installed, over whatever was registered
\* before, building an extension without a .go source passes through every one
\* of them and runs the build step registered first exactly once.
C9_ChainPreserved ==
    \A t \in Threads : ~AnyGoSource(inv[t].ext) =>
        /\ inv[t].pc \in {"base", "compile", "link", "basefinally", "restore", "done"} =>
            inv[t].delegated = Len(Routers(installed))
        /\ inv[t].pc \in {"compile", "link", "basefinally", "restore", "done"} =>
            /\ inv[t].origCalls = 1
            /\ inv[t].origKind = IF installed[1].kind = "custom" THEN "custom" ELSE "default"
        /\ inv[t].origCalls <= 1

C9_Witness ==
    \E t \in Threads :
        /\ Done(t) /\ ~AnyGoSource(inv[t].ext)
        /\ Len(installed) = 3 /\ installed[1].kind = "custom"
        /\ inv[t].delegated = 2 /\ inv[t].origCalls = 1 /\ inv[t].origKind = "custom"

\* where an invocation is inside the driver's with block (lines 131-152), and
\* where inside the probe's (lines 74-88)
DriverScope == {"copytree", "fetch", "flags", "goenv", "probe", "trial",
                "probecleanup", "build", "cleanup"}
ProbeScope == {"trial", "probecleanup"}

\* C4: once a _tmpdir scope has been left, on whatever path, its directory no
\* longer exists: every directory on disk belongs to an invocation that is
\* still inside the scope.
C4_TmpdirRemoved ==
    \A k \in 1..Len(dirs) : dirs[k].exists =>
        \E t \in Threads :
            \/ inv[t].tmp = k /\ inv[t].pc \in DriverScope
            \/ inv[t].probeTmp = k /\ inv[t].pc \in ProbeScope

\* C5: go get -d runs first and go build only after it has exited 0, in the
\* same directory, each at most once; a non-zero exit of either ends the
\* invocation, which raises that CalledProcessError unchanged.
GoProcs(t) == SelectSeq(inv[t].procs, LAMBDA p : p.argv \in {CMD_GET, CMD_BUILD})

C5_FetchThenBuild ==
    \A t \in Threads :
        LET g == GoProcs(t)
        IN  /\ Len(g) <= 2
            /\ Len(g) >= 1 => g[1].argv = CMD_GET
            /\ Len(g) = 2 => g[2].argv = CMD_BUILD /\ g[1].rc = 0 /\ g[2].cwd = g[1].cwd
            /\ Len(g) >= 1 /\ g[Len(g)].rc # 0 =>
                 /\ inv[t].pc \in {"cleanup", "done"}
                 /\ Done(t) => inv[t].exc = CalledProcessError(g[Len(g)].rc, g[Len(g)].argv)

\* C6: _get_ldflags never raises; off Windows it returns the clang flag when
\* the trial compile accepts it, else the GNU flag (accepted or not).
C6_ProberNeverRaises ==
    \A t \in Threads :
        /\ inv[t].probe # "raised"
        /\ inv[t].probe = "returned" /\ host.platform # "win32" =>
             inv[t].env["CGO_LDFLAGS"] =
                 IF LFLAG_CLANG \in host.accepts THEN LFLAG_CLANG ELSE LFLAG_GCC

\* C7: with build_extension running in several threads at once, each driver
\* invocation has a directory of its own, which exists for as long as that
\* invocation uses it, and when every invocation has finished self.compiler is
\* the object the build command held at the start, in the state it had.
C7_ConcurrentIsolation ==
    /\ \A t, u \in Threads :
          t # u => ({inv[t].tmp, inv[t].probeTmp} \cap {inv[u].tmp, inv[u].probeTmp}) \ {0} = {}
    /\ \A t \in Threads :
          /\ inv[t].pc \in DriverScope =>
                dirs[inv[t].tmp].exists /\ dirs[inv[t].tmp].owner = t
          /\ inv[t].pc \in ProbeScope =>
                /\ dirs[inv[t].probeTmp].exists /\ dirs[inv[t].probeTmp].owner = t
                /\ inv[t].probeTmp # inv[t].tmp
    /\ (\A t \in Threads : inv[t].pc \in {"idle", "done"}) =>
          compiler = 1 /\ heap[1] = <<"inc">>

\* the only source is a .go file that exists and lies outside the project root
OutsideRoot(p) == p.abs \/ (Norm(p.parts) # <<>> /\ Norm(p.parts)[1] = "..")
SingleGoOutside(e) ==
    /\ Len(e.sources) = 1 /\ AnyGoSource(e)
    /\ exists(e.sources[1]) /\ OutsideRoot(e.sources[1])

\* C8 as claimed: such an extension makes the build step raise, and neither
\* go get nor go build is run for it.
C8_OutsideRootRejected ==
    \A t \in Threads : Busy(t) /\ SingleGoOutside(inv[t].ext) =>
        /\ GoProcs(t) = <<>>
        /\ inv[t].pc \notin {"flags", "goenv", "probe", "trial", "probecleanup", "build"}
        /\ Done(t) => inv[t].exc # NoExc

\* C8 as amended: the checks do not look at where the source lies.  Such an
\* extension passes them, gets its temporary directory, and go get and go build
\* are run in os.path.join(root_path, dirname(source)): for an absolute source
\* that is the source's own directory, outside the temporary directory.
C8_OutsideRootNotChecked ==
    \A t \in Threads : Busy(t) /\ SingleGoOutside(inv[t].ext) =>
        /\ inv[t].pc # "enter" => inv[t].tmp # 0 /\ inv[t].driver
        /\ inv[t].exc.type \notin {"OSError:sources", "OSError:missing", "OSError:outside"}
        /\ \A k \in 1..Len(GoProcs(t)) :
              inv[t].ext.sources[1].abs =>
                  /\ GoProcs(t)[k].cwd = Abs(SubSeq(inv[t].ext.sources[1].parts, 1,
                                                   Len(inv[t].ext.sources[1].parts) - 1))
                  /\ GoProcs(t)[k].cwd.tmp = 0

C8_Witness ==
    \E t \in Threads :
        /\ Done(t) /\ inv[t].ext.name = "outside" /\ inv[t].exc = NoExc
        /\ Len(GoProcs(t)) = 2 /\ GoProcs(t)[2].rc = 0
        /\ GoProcs(t)[2].cwd = Abs(<<"srv", "ext">>)

\* what dict(os.environ, **env) must be for a fetch or a build
EnvAsComputed(t, p) ==
    /\ DOMAIN p.env = DOMAIN environ \cup {"GOPATH"}
                      \cup (IF p.argv = CMD_BUILD THEN {"CGO_CFLAGS", "CGO_LDFLAGS"} ELSE {})
    /\ p.env["GOPATH"] = TmpPath(inv[t].tmp)
    /\ \A k \in DOMAIN environ \ {"GOPATH", "CGO_CFLAGS", "CGO_LDFLAGS"} : p.env[k] = environ[k]
    /\ p.argv = CMD_GET =>
          \A k \in {"CGO_CFLAGS", "CGO_LDFLAGS"} \cap DOMAIN environ : p.env[k] = environ[k]
    /\ p.argv = CMD_BUILD =>
          /\ p.env["CGO_CFLAGS"] = _get_cflags(inv[t].entryState, inv[t].ext.define_macros)
          /\ p.env["CGO_LDFLAGS"] \in {LFLAG_CLANG, LFLAG_GCC, WIN32_LDFLAGS}

\* C10 as claimed: every child process started during a driver invocation runs
\* with os.environ overridden by the computed environment, GOPATH being the
\* invocation's temporary directory; os.environ stays as it was.
C10_EveryChildEnv ==
    \A t \in Threads :
        /\ Busy(t) => environ = inv[t].entryEnviron
        /\ \A k \in 1..Len(inv[t].procs) : EnvAsComputed(t, inv[t].procs[k])

\* C10 as amended: that holds of the children _check_call starts, go get -d
\* and go build; the children of _get_ldflags (go env CC, the trial compiles)
\* run with os.environ as it is; os.environ stays as it was.
C10_CheckCallEnv ==
    \A t \in Threads :
        /\ Busy(t) => environ = inv[t].entryEnviron
        /\ \A k \in 1..Len(inv[t].procs) :
              IF inv[t].procs[k].argv \in {CMD_GET, CMD_BUILD}
              THEN EnvAsComputed(t, inv[t].procs[k])
              ELSE inv[t].procs[k].env = environ

C10_Witness ==
    \E t \in Threads :
        /\ Done(t) /\ inv[t].exc = NoExc /\ "GOPATH" \in DOMAIN environ
        /\ Len(inv[t].procs) = 5
        /\ inv[t].procs[1].argv = CMD_GET /\ inv[t].procs[5].argv = CMD_BUILD
        /\ inv[t].procs[2].argv = CMD_GOENV
        /\ inv[t].procs[5].env["GOPATH"] = TmpPath(inv[t].tmp)
        /\ inv[t].procs[5].env["GOPATH"] # environ["GOPATH"]
        /\ inv[t].procs[5].env["CGO_LDFLAGS"] = LFLAG_GCC
        /\ inv[t].procs[5].env["CGO_CFLAGS"] # <<>>

====
